---------------------------- MODULE Spec2Model ----------------------------
(***************************************************************************)
(* A model of drishti: the monitor loop (src/src/monitor.py), the Telegram *)
(* notification sink (src/src/telegram_handler.py) and the local           *)
(* filesystem event source (src/src/blink_handler.py).                     *)
(*                                                                         *)
(* Everything runs on one asyncio event loop, so a coroutine is atomic     *)
(* between two awaits that really suspend.  `await is_running()` never     *)
(* suspends (the coroutine returns at once), so a connection check and the *)
(* call that follows it are one step.  The telegram application handles    *)
(* one update at a time, so a command handler is one step with respect to  *)
(* the other command handlers.                                             *)
(*                                                                         *)
(* monitor.py imports BlinkHandler (the cloud variant: check_motion,       *)
(* blink.cameras), which is not among the source files; its motion         *)
(* tracker is modelled from the specification (section 4.2).               *)
(***************************************************************************)
EXTENDS Integers, Sequences, FiniteSets, TLC

\* ------------------------------------------------------------- bounds
\* Polls of the event source (started, failed) the model counts.
MaxPolls == 2
\* Commands the command listener may handle.
MaxCmds == 2
\* Direct calls of send_motion_alert in SinkSpec.
MaxAlerts == 2
\* Samples per camera fed to the motion tracker in TrackerSpec.
MaxSamples == 7
\* File-created events the observer may dispatch in LocalSpec.
MaxFsEvents == 2
\* Callbacks add_event_callback may register.
MaxCallbacks == 2
\* Directories between the storage root and a created file.
MaxDepth == 2
MaxDiscovers == 3

\* ------------------------------------------------------------- values
\* The cameras the cloud event source knows after discovery.
Cameras == {"front_door", "backyard"}
\* context.args of a command: no argument, a known camera, an unknown one.
ArgLists == {<<>>, <<"front_door">>, <<"backyard">>, <<"garage">>}
CommandNames == {"dgetphoto", "dgetvideo", "ddisconnect", "dhelp", "start"}
\* video_path of send_motion_alert: None, or a path whose file opens or not.
NoMedia == "None"
MediaRefs == {NoMedia, "file"}

VARIABLES
    pc,            \* where monitor_loop is: the await it is suspended at
    running,       \* TelegramHandler._running
    listening,     \* setup_handlers done and start_polling scheduled
    motion_state,  \* the tracker's stored flag of each camera
    batch,         \* events process_motion_events has still to process
    ev,            \* the event process_motion_events is processing
    processed,     \* the last event process_motion_events finished with
    alert,         \* the send_motion_alert call in progress or last made
    cmd,           \* the last command handled and what it did
    nPolls,        \* polls started
    pollFailed,    \* some poll has raised
    nCmds,         \* commands handled
    nAlerts,       \* direct send_motion_alert calls (SinkSpec)
    sinceDisc,     \* what the loop did since _running became false
    samples,       \* TrackerSpec: the samples fed so far, per camera
    fired,         \* TrackerSpec: whether each sample emitted an event
    cameras,       \* BlinkLocalHandler.cameras: the names discovered
    event_callbacks, \* BlinkLocalHandler.event_callbacks
    observing,     \* initialize(): not called, watching, or failed
    tasks,         \* callback tasks created and not yet run
    fs,            \* the last file-created event and what became of it
    nFs,           \* file-created events dispatched
    scans          \* the _discover_cameras calls made and what they left

\* The state of the local filesystem event source.
local == <<cameras, event_callbacks, observing, tasks, fs, nFs, scans>>

\* The state of the monitor, the sink and the motion tracker.
core == <<pc, running, listening, motion_state, batch, ev, processed, alert,
          cmd, nPolls, pollFailed, nCmds, nAlerts, sinceDisc, samples, fired>>

vars == <<core, local>>

\* ------------------------------------------------------ motion tracker
\* The order in which check_motion visits the known cameras.
CameraOrder == <<"front_door", "backyard">>

\* A level-triggered tracker: an event for every true sample.
RisingEdge_Level(stored, sample) == sample

\* Whether a camera's new sample emits an event, given its stored flag.
RisingEdge(stored, sample) == sample /\ ~stored

\* The events of one poll: the cameras with a rising edge, in visiting order.
MotionEvents(flags, sample) ==
    SelectSeq(CameraOrder, LAMBDA c : RisingEdge(flags[c], sample[c]))

\* The stored flags after one poll: overwritten by the sample, every camera.
StoreSamples(flags, sample) == [c \in Cameras |-> sample[c]]

\* ------------------------------------------------------ records
NoEvent == [camera |-> "none", fetch |-> "none", connected |-> FALSE,
            text |-> 0, video |-> 0, logged |-> FALSE]

NewEvent(c) == [camera |-> c, fetch |-> "pending", connected |-> FALSE,
                text |-> 0, video |-> 0, logged |-> FALSE]

NoAlert == [caller |-> "none", stage |-> "idle", camera |-> "none",
            media |-> NoMedia, connected |-> FALSE, text |-> 0, video |-> 0,
            fault |-> "none", logged |-> FALSE, raised |-> FALSE,
            late |-> 0]

NoCommand == [name |-> "none", args |-> <<>>, was_running |-> TRUE,
              replies |-> <<>>, requests |-> <<>>, logged |-> FALSE]

\* ------------------------------------------------------ TelegramHandler
\* is_running(): the stored flag.
IsRunning == running

\* `if not self._running: return` without the check: every call sends.
AlertEntry_NoCheck(a) == [a EXCEPT !.stage = "text"]

\* The first statement of send_motion_alert: a disconnected bot returns at
\* once, a connected one starts the text send.
AlertEntry(a) ==
    IF ~running THEN [a EXCEPT !.stage = "done"]
    ELSE [a EXCEPT !.stage = "text"]

\* A call of send_motion_alert up to its first await; connected records
\* what _running was when the call was made.
StartAlert(caller, c, m) ==
    AlertEntry([NoAlert EXCEPT !.caller = caller, !.camera = c, !.media = m,
                               !.connected = running])

\* The except clause missing: the failure reaches the caller.
AlertFailed_Raise(a, what) ==
    [a EXCEPT !.stage = "done", !.fault = what, !.raised = TRUE]

\* except Exception: the failure is logged and the call returns normally.
AlertFailed(a, what) ==
    [a EXCEPT !.stage = "done", !.fault = what, !.logged = TRUE]

\* The try around send_message alone: after a failed text send the call
\* goes on to the media send.
TextFailed_Continues(a) ==
    [a EXCEPT !.fault = "text_send", !.logged = TRUE,
              !.stage = IF a.media = NoMedia THEN "done" ELSE "video"]

\* bot.send_message raised: the except clause of the whole body is reached,
\* the media part is skipped.
TextFailed(a) == AlertFailed(a, "text_send")

\* A message of call a is delivered: late counts those delivered while
\* _running is false.
Sent(a) == [a EXCEPT !.late = IF running THEN @ ELSE @ + 1]

\* bot.send_message returned: the text is delivered; without a video_path the
\* call is over, with one the file is opened and the video send is started.
AfterText(a, opens) ==
    LET t == Sent([a EXCEPT !.text = @ + 1]) IN
    IF a.media = NoMedia THEN [t EXCEPT !.stage = "done"]
    ELSE IF opens THEN [t EXCEPT !.stage = "video"]
    ELSE AlertFailed(t, "open")

\* bot.send_video returned: the video is delivered and the call is over.
AfterVideo(a) == Sent([a EXCEPT !.video = @ + 1, !.stage = "done"])

\* How the media request of a get command with a known camera may end.
FetchOutcomes == {"ok", "request_failed", "refresh_failed", "attach_failed"}

\* context.args[0] if context.args else None
CameraArg(args) == IF Len(args) > 0 THEN args[1] ELSE "None"

\* The outcomes that can differ for a command: a media request is made
\* only by a get command with a known camera.
OutcomesOf(name, args) ==
    IF name \in {"dgetphoto", "dgetvideo"} /\ CameraArg(args) \in Cameras
    THEN FetchOutcomes ELSE {"ok"}

\* The first check of cmd_get_photo and cmd_get_video: a disconnected bot
\* only re-states that it is disconnected.
Disconnected(c) == [c EXCEPT !.replies = <<"disconnected">>]

\* The camera lookup missing: the request goes out for any name given.
GetMedia_NoLookup(c, request, media, outcome) ==
    IF CameraArg(c.args) = "None" THEN [c EXCEPT !.replies = <<"usage">>]
    ELSE IF outcome = "ok"
    THEN [c EXCEPT !.requests = <<request, "refresh">>, !.replies = <<media>>]
    ELSE [c EXCEPT !.requests = <<request>>, !.logged = TRUE,
                   !.replies = <<"error">>]

\* The body of cmd_get_photo / cmd_get_video after the connection check:
\* request names camera.snap_picture or camera.record_video, media the
\* attachment (photo or video).  Every failure past the camera lookup is
\* caught, logged and answered with an error reply.
GetMedia(c, request, media, outcome) ==
    IF CameraArg(c.args) = "None" THEN [c EXCEPT !.replies = <<"usage">>]
    ELSE IF CameraArg(c.args) \notin Cameras
    THEN [c EXCEPT !.replies = <<"not_found">>]
    ELSE CASE outcome = "ok" ->
                [c EXCEPT !.requests = <<request, "refresh">>,
                          !.replies = <<media>>]
           [] outcome = "request_failed" ->
                [c EXCEPT !.requests = <<request>>, !.logged = TRUE,
                          !.replies = <<"error">>]
           [] OTHER ->
                [c EXCEPT !.requests = <<request, "refresh">>,
                          !.logged = TRUE, !.replies = <<"error">>]

cmd_get_photo(c, outcome) ==
    IF ~c.was_running THEN Disconnected(c)
    ELSE GetMedia(c, "snap_picture", "photo", outcome)

cmd_get_video(c, outcome) ==
    IF ~c.was_running THEN Disconnected(c)
    ELSE GetMedia(c, "record_video", "video", outcome)

\* cmd_help, also registered for /start: the help text, whatever _running is.
cmd_help(c) == [c EXCEPT !.replies = <<"help">>]

\* cmd_disconnect: the flag is cleared and the disconnection confirmed.
cmd_disconnect(c) == [c EXCEPT !.replies = <<"confirm">>]

\* A bug that lets /start reconnect the bot.
RunningAfter_Restart(name) ==
    IF name = "ddisconnect" THEN FALSE
    ELSE IF name = "start" THEN TRUE ELSE running

\* _running after a command has been handled.
RunningAfter(name) == IF name = "ddisconnect" THEN FALSE ELSE running

\* One update dispatched to the handler setup_handlers registered for it.
HandleCommand(name, args, outcome) ==
    LET c == [NoCommand EXCEPT !.name = name, !.args = args,
                               !.was_running = running] IN
    /\ nCmds < MaxCmds
    /\ nCmds' = nCmds + 1
    /\ running' = RunningAfter(name)
    /\ cmd' = CASE name = "dgetphoto" -> cmd_get_photo(c, outcome)
                [] name = "dgetvideo" -> cmd_get_video(c, outcome)
                [] name = "ddisconnect" -> cmd_disconnect(c)
                [] OTHER -> cmd_help(c)

\* The command listener of the running monitor: updates are handled from
\* the moment start_polling is scheduled until monitor_loop returns.
Command ==
    /\ listening
    /\ pc # "stopped"
    /\ \E name \in CommandNames, args \in ArgLists :
         \E outcome \in OutcomesOf(name, args) :
           HandleCommand(name, args, outcome)
    /\ UNCHANGED <<pc, listening, motion_state, batch, ev, processed, alert,
                   nPolls, nAlerts, sinceDisc, samples, fired, pollFailed, local>>

\* ------------------------------------------------------ BlinkMonitor
\* process_motion_events moves to the next event of the batch, or returns
\* to monitor_loop, which then sleeps the cycle delay.
Begin(events) ==
    IF events = <<>>
    THEN /\ pc' = "sleep"
         /\ ev' = NoEvent
         /\ batch' = <<>>
    ELSE /\ pc' = "download"
         /\ ev' = NewEvent(Head(events))
         /\ batch' = Tail(events)

\* The for-loop body is over for event e.
Complete(e) ==
    /\ processed' = e
    /\ Begin(batch)

\* The try of the for-loop body without its except clause: the exception
\* leaves process_motion_events, the rest of the batch is not processed
\* and monitor_loop's own except clause logs it and sleeps the longer delay.
EventFailed_Propagates(e) ==
    /\ processed' = [e EXCEPT !.logged = TRUE]
    /\ pc' = "backoff"
    /\ ev' = NoEvent
    /\ batch' = <<>>

\* An exception inside the try of the for-loop body: the except clause
\* logs it and the loop goes on with the next event.
EventFailed(e) == Complete([e EXCEPT !.logged = TRUE])

\* send_motion_alert returned to process_motion_events: os.remove of the
\* temporary file, whose failure is caught and logged.
Finish(e, a) ==
    IF a.raised THEN EventFailed(e)
    ELSE \E removed \in BOOLEAN :
           IF removed THEN Complete(e) ELSE EventFailed(e)

\* A step of send_motion_alert ends with the call in state a; a call made
\* by process_motion_events that is over resumes the for-loop at once.
Deliver(a) ==
    /\ alert' = a
    /\ IF a.caller = "loop"
       THEN LET e == [ev EXCEPT !.text = a.text, !.video = a.video] IN
            IF a.stage = "done" THEN Finish(e, a)
            ELSE ev' = e /\ UNCHANGED <<pc, batch, processed>>
       ELSE UNCHANGED <<pc, batch, ev, processed>>

\* A count of polls, kept up to MaxPolls: the loop itself is unbounded.
Counted(n) == IF n < MaxPolls THEN n + 1 ELSE n

\* The loop never looks at the connection flag.
ShouldStop_Never == FALSE

\* A loop that gives up once a poll has raised.
ShouldStop_AfterFailure == ~IsRunning \/ pollFailed

\* The loop's connection check.
ShouldStop == ~IsRunning

\* The top of the while loop, reached without suspension from the end of
\* initialization and from the end of either sleep: leave when
\* disconnected, else start a poll of the event source.
LoopTop ==
    IF ShouldStop
    THEN /\ pc' = "stopped"
         /\ UNCHANGED nPolls
         /\ sinceDisc' = [sinceDisc EXCEPT
                            !.wakes = IF running THEN @ ELSE @ + 1]
    ELSE /\ pc' = "poll"
         /\ nPolls' = Counted(nPolls)
         /\ sinceDisc' = [sinceDisc EXCEPT
                            !.wakes = IF running THEN @ ELSE @ + 1,
                            !.polls = IF running THEN @ ELSE @ + 1]

\* The listener started before initialize() is awaited.
InitFailed_ListenFirst ==
    /\ pc' = "stopped"
    /\ listening' = TRUE
    /\ UNCHANGED <<nPolls, sinceDisc>>

\* `if not await self.blink.initialize(): return`: monitor_loop is over
\* before setup_handlers and before the listener task is created.
InitFailed ==
    /\ pc' = "stopped"
    /\ UNCHANGED <<listening, nPolls, sinceDisc>>

\* monitor_loop up to its first suspension: initialize(), and on success
\* setup_handlers, the listener task, the first connection check (no
\* command can have been handled yet) and the start of the first poll.
Initialize ==
    /\ pc = "init"
    /\ \E ok \in BOOLEAN :
         IF ok
         THEN /\ listening' = TRUE
              /\ LoopTop
         ELSE InitFailed
    /\ UNCHANGED <<running, motion_state, batch, ev, processed, alert, cmd,
                   nCmds, nAlerts, samples, fired, pollFailed, local>>

\* check_motion returned its events; process_motion_events is entered when
\* there are any and returns at once when the bot is disconnected.
PollOk ==
    /\ pc = "poll"
    /\ \E sample \in [Cameras -> BOOLEAN] :
         LET events == MotionEvents(motion_state, sample) IN
         /\ motion_state' = StoreSamples(motion_state, sample)
         /\ IF events = <<>> \/ ~IsRunning THEN Begin(<<>>) ELSE Begin(events)
    /\ UNCHANGED <<running, listening, processed, alert, cmd, nPolls, nCmds,
                   nAlerts, sinceDisc, samples, fired, pollFailed, local>>

\* The while loop without its except clause: the exception ends monitor_loop.
PollRaised_Stops == pc' = "stopped"

\* except Exception in the while loop: log, then asyncio.sleep(60).
PollRaised == pc' = "backoff"

\* check_motion raised: caught in monitor_loop, which sleeps the longer delay.
PollFail ==
    /\ pc = "poll"
    /\ PollRaised
    /\ pollFailed' = TRUE
    /\ UNCHANGED <<running, listening, motion_state, batch, ev, processed,
                   alert, cmd, nPolls, nCmds, nAlerts, sinceDisc, samples,
                   fired, local>>

\* camera.video_to_file returned: send_motion_alert is called with the file.
DownloadOk ==
    /\ pc = "download"
    /\ LET e == [ev EXCEPT !.fetch = "ok", !.connected = running]
           a == StartAlert("loop", ev.camera, "file") IN
       /\ alert' = a
       /\ IF a.stage = "done" THEN Finish(e, a)
          ELSE pc' = "alert" /\ ev' = e /\ UNCHANGED <<batch, processed>>
    /\ UNCHANGED <<running, listening, motion_state, cmd, nPolls, nCmds,
                   nAlerts, sinceDisc, samples, fired, pollFailed, local>>

\* camera.video_to_file raised: the except clause of the for-loop body logs
\* the error; send_motion_alert is not called for this event.
DownloadFail ==
    /\ pc = "download"
    /\ EventFailed([ev EXCEPT !.fetch = "failed", !.connected = running])
    /\ UNCHANGED <<running, listening, motion_state, alert, cmd, nPolls,
                   nCmds, nAlerts, sinceDisc, samples, fired, pollFailed, local>>

\* asyncio.sleep(30) is over: back to the top of the loop.
Sleep ==
    /\ pc = "sleep"
    /\ LoopTop
    /\ UNCHANGED <<running, listening, motion_state, batch, ev, processed,
                   alert, cmd, nCmds, nAlerts, samples, fired, pollFailed, local>>

\* asyncio.sleep(60) of the except clause is over: back to the top.
Backoff ==
    /\ pc = "backoff"
    /\ LoopTop
    /\ UNCHANGED <<running, listening, motion_state, batch, ev, processed,
                   alert, cmd, nCmds, nAlerts, samples, fired, pollFailed, local>>

\* ------------------------------------------------- send_motion_alert
sinkFrame == <<running, listening, motion_state, cmd, nPolls, pollFailed,
               nCmds, nAlerts, sinceDisc, samples, fired, local>>

SendTextOk ==
    /\ alert.stage = "text"
    /\ \E opens \in BOOLEAN : Deliver(AfterText(alert, opens))
    /\ UNCHANGED sinkFrame

SendTextFail ==
    /\ alert.stage = "text"
    /\ Deliver(TextFailed(alert))
    /\ UNCHANGED sinkFrame

SendVideoOk ==
    /\ alert.stage = "video"
    /\ Deliver(AfterVideo(alert))
    /\ UNCHANGED sinkFrame

SendVideoFail ==
    /\ alert.stage = "video"
    /\ Deliver(AlertFailed(alert, "video_send"))
    /\ UNCHANGED sinkFrame

\* ------------------------------------------------ BlinkLocalHandler
\* The entries of the storage root when initialize() scans it.
RootEntries == {[name |-> "front_door", is_dir |-> TRUE],
                [name |-> "backyard", is_dir |-> TRUE],
                [name |-> "readme", is_dir |-> FALSE]}
\* The name of the storage root itself.
RootName == "storage"
\* Directory names a created file's path may go through.
DirNames == {"front_door", "garage"}
\* File names, split at their dots: clip.mp4, clip.jpg, clip.MP4, mp4.
FileNames == {<<"clip", "mp4">>, <<"clip", "jpg">>, <<"clip", "MP4">>,
              <<"mp4">>}

DirSeqs == UNION {[1..n -> DirNames] : n \in 0..MaxDepth}
\* A path below the storage root: its directories, then its last name.
Paths == [dirs : DirSeqs, name : FileNames]

NoFsEvent == [path |-> [dirs |-> <<>>, name |-> <<"none">>],
              is_directory |-> FALSE, passed |-> FALSE,
              camera_name |-> "none", known |-> FALSE, scheduled |-> 0,
              raised |-> FALSE]

\* How the scan of the storage root may go: it visits every entry, or it
\* raises after the entries it has visited so far (none, some or all).
ScanOutcomes ==
    {o \in [visited : SUBSET RootEntries, failed : BOOLEAN] :
        o.failed \/ o.visited = RootEntries}

\* A discovery that reports only the cameras it had not seen before.
DiscoverCameras_NewOnly(known, visited) ==
    {e.name : e \in {x \in visited : x.is_dir}} \ known

\* _discover_cameras: every directory entry the scan visited becomes a
\* camera; a scan that raises is logged and keeps what was added before.
DiscoverCameras(known, visited) ==
    known \cup {e.name : e \in {x \in visited : x.is_dir}}

\* One call of _discover_cameras with scan outcome o: self.cameras is
\* updated and the exception, if any, is logged and not re-raised.
DiscoverStep(o) ==
    /\ cameras' = DiscoverCameras(cameras, o.visited)
    /\ scans' = Append(scans, [visited |-> o.visited, failed |-> o.failed,
                                logged |-> o.failed, cameras |-> cameras'])

\* src_path.endswith('.mp4')
EndsWithMp4(path) ==
    Len(path.name) >= 2 /\ path.name[Len(path.name)] = "mp4"

\* The filter of BlinkFileHandler.on_created.
PassesFilter(path, is_directory) == ~is_directory /\ EndsWithMp4(path)

\* The attribution by the top-level directory below the storage root.
CameraOf_TopLevel(path) ==
    IF path.dirs = <<>> THEN RootName ELSE path.dirs[1]

\* Path(video_path).parent.name
CameraOf(path) ==
    IF path.dirs = <<>> THEN RootName ELSE path.dirs[Len(path.dirs)]

\* The camera check missing: every media file is an event.
KnownCamera_Any(name) == TRUE

\* camera_name in self.cameras
KnownCamera(name) == name \in cameras

\* The tasks _handle_new_video creates for one file: one per callback.
CallbackTasks(name, path) ==
    [i \in 1..Len(event_callbacks) |->
        [callback |-> event_callbacks[i], camera_name |-> name,
         video_path |-> path]]

\* initialize(): the storage path is checked, the cameras are discovered
\* and the observer is scheduled on the root, recursively, and started.
\* Any exception outside _discover_cameras makes it return False.
LocalInitialize ==
    /\ observing = "new"
    /\ \E exists \in BOOLEAN, o \in ScanOutcomes, started \in BOOLEAN :
         IF ~exists
         THEN observing' = "failed" /\ UNCHANGED <<cameras, scans>>
         ELSE /\ DiscoverStep(o)
              /\ observing' = IF started THEN "watching" ELSE "failed"
    /\ UNCHANGED <<core, event_callbacks, tasks, fs, nFs>>

\* _discover_cameras called on its own.
Discover ==
    /\ Len(scans) < MaxDiscovers
    /\ \E o \in ScanOutcomes : DiscoverStep(o)
    /\ UNCHANGED <<core, event_callbacks, observing, tasks, fs, nFs>>

\* add_event_callback
AddEventCallback ==
    /\ Len(event_callbacks) < MaxCallbacks
    /\ event_callbacks' = Append(event_callbacks, Len(event_callbacks) + 1)
    /\ UNCHANGED <<core, cameras, observing, tasks, fs, nFs, scans>>

\* _handle_new_video.  asyncio.create_task needs the running loop of the
\* calling thread: called on the event loop's thread (in_loop) it creates
\* the task; called on the observer's thread, where watchdog dispatches
\* on_created, it raises RuntimeError at the first callback.
HandleNewVideo(path, in_loop) ==
    LET name == CameraOf(path) IN
    IF ~KnownCamera(name)
    THEN /\ tasks' = tasks
         /\ fs' = [NoFsEvent EXCEPT !.path = path, !.passed = TRUE,
                                    !.camera_name = name]
    ELSE IF event_callbacks = <<>>
    THEN /\ tasks' = tasks
         /\ fs' = [NoFsEvent EXCEPT !.path = path, !.passed = TRUE,
                                    !.camera_name = name, !.known = TRUE]
    ELSE IF in_loop
    THEN /\ tasks' = tasks \o CallbackTasks(name, path)
         /\ fs' = [NoFsEvent EXCEPT !.path = path, !.passed = TRUE,
                                    !.camera_name = name, !.known = TRUE,
                                    !.scheduled = Len(event_callbacks)]
    ELSE /\ tasks' = tasks
         /\ fs' = [NoFsEvent EXCEPT !.path = path, !.passed = TRUE,
                                    !.camera_name = name, !.known = TRUE,
                                    !.raised = TRUE]

\* BlinkFileHandler.on_created, dispatched by the started observer for a
\* file or directory created anywhere below the storage root.
OnCreated ==
    /\ observing = "watching"
    /\ nFs < MaxFsEvents
    /\ nFs' = nFs + 1
    /\ \E path \in Paths, is_directory \in BOOLEAN, in_loop \in BOOLEAN :
         IF PassesFilter(path, is_directory)
         THEN HandleNewVideo(path, in_loop)
         ELSE /\ tasks' = tasks
              /\ fs' = [NoFsEvent EXCEPT !.path = path,
                                         !.is_directory = is_directory]
    /\ UNCHANGED <<core, cameras, event_callbacks, observing, scans>>

\* The event loop runs the oldest callback task.
RunTask ==
    /\ tasks # <<>>
    /\ tasks' = Tail(tasks)
    /\ UNCHANGED <<core, cameras, event_callbacks, observing, fs, nFs, scans>>

\* ------------------------------------------------------ specification
Init ==
    /\ pc = "init"
    /\ running = TRUE
    /\ listening = FALSE
    /\ motion_state = [c \in Cameras |-> FALSE]
    /\ batch = <<>>
    /\ ev = NoEvent
    /\ processed = NoEvent
    /\ alert = NoAlert
    /\ cmd = NoCommand
    /\ nPolls = 0
    /\ pollFailed = FALSE
    /\ scans = <<>>
    /\ nCmds = 0
    /\ nAlerts = 0
    /\ sinceDisc = [polls |-> 0, wakes |-> 0]
    /\ samples = [c \in Cameras |-> <<>>]
    /\ fired = [c \in Cameras |-> <<>>]
    /\ cameras = {}
    /\ event_callbacks = <<>>
    /\ observing = "new"
    /\ tasks = <<>>
    /\ fs = NoFsEvent
    /\ nFs = 0

MonitorStep ==
    \/ Initialize \/ PollOk \/ PollFail \/ DownloadOk
    \/ DownloadFail \/ Sleep \/ Backoff
    \/ SendTextOk \/ SendTextFail \/ SendVideoOk \/ SendVideoFail

Next == MonitorStep \/ Command

Spec == Init /\ [][Next]_vars

\* The event loop resumes a ready coroutine, and every awaited call (a poll,
\* a download, a send, a sleep) returns or raises in the end.
FairSpec == Spec /\ WF_vars(MonitorStep)

\* ------------------------------------------- the sink called directly
\* send_motion_alert called by any client, with any camera and with or
\* without a video_path, once the previous call is over.
ApiSendAlert ==
    /\ alert.stage \in {"idle", "done"}
    /\ nAlerts < MaxAlerts
    /\ nAlerts' = nAlerts + 1
    /\ \E c \in Cameras, m \in MediaRefs : alert' = StartAlert("api", c, m)
    /\ UNCHANGED <<pc, running, listening, motion_state, batch, ev, processed,
                   cmd, nPolls, nCmds, sinceDisc, samples, fired, pollFailed, local>>

\* A command handler called at any time relative to the alerts.
SinkCommand ==
    /\ \E name \in CommandNames, args \in ArgLists :
         \E outcome \in OutcomesOf(name, args) :
           HandleCommand(name, args, outcome)
    /\ UNCHANGED <<pc, listening, motion_state, batch, ev, processed, alert,
                   nPolls, nAlerts, sinceDisc, samples, fired, pollFailed, local>>

SinkNext ==
    \/ ApiSendAlert \/ SinkCommand
    \/ SendTextOk \/ SendTextFail \/ SendVideoOk \/ SendVideoFail

SinkSpec == Init /\ [][SinkNext]_vars

\* ------------------------------------------- the motion tracker alone
\* One poll of check_motion with any sample of every camera; samples and
\* fired keep what was fed and what was emitted.
TrackerPoll ==
    /\ \A c \in Cameras : Len(samples[c]) < MaxSamples
    /\ \E sample \in [Cameras -> BOOLEAN] :
         LET events == MotionEvents(motion_state, sample) IN
         /\ motion_state' = StoreSamples(motion_state, sample)
         /\ samples' = [c \in Cameras |-> Append(samples[c], sample[c])]
         /\ fired' = [c \in Cameras |->
                Append(fired[c], \E i \in 1..Len(events) : events[i] = c)]
    /\ UNCHANGED <<pc, running, listening, batch, ev, processed, alert, cmd,
                   nPolls, nCmds, nAlerts, sinceDisc, pollFailed, local>>

TrackerSpec == Init /\ [][TrackerPoll]_vars

\* --------------------------------- the filesystem event source alone
LocalNext == LocalInitialize \/ AddEventCallback \/ OnCreated \/ RunTask

LocalSpec == Init /\ [][LocalNext]_vars

\* _discover_cameras called repeatedly on one handler.
DiscoveryNext == Discover

DiscoverySpec == Init /\ [][DiscoveryNext]_vars

\* ------------------------------------------------------ claims
ErrorReplies == {"disconnected", "usage", "not_found", "error"}

\* The maximal runs of consecutive true samples of s, as (first, last).
MaximalRuns(s) ==
    {r \in (1..Len(s)) \X (1..Len(s)) :
        /\ r[1] <= r[2]
        /\ \A k \in r[1]..r[2] : s[k]
        /\ (r[1] = 1 \/ ~s[r[1] - 1])
        /\ (r[2] = Len(s) \/ ~s[r[2] + 1])}

\* The polls at which an event was emitted.
FiredAt(f) == {i \in 1..Len(f) : f[i]}

\* C1: with the stored flags starting false, a poll emits an event for a
\* camera exactly when its new sample is true and its stored flag was
\* false, the stored flag is the latest sample after every poll, and so the
\* events of a camera are one per maximal run of true samples, at the run's
\* first sample.
C1_OneEventPerRisingEdge ==
    \A c \in Cameras :
        LET s == samples[c]
            f == fired[c] IN
        /\ Len(f) = Len(s)
        /\ \A i \in 1..Len(s) :
              f[i] = (s[i] /\ (IF i = 1 THEN TRUE ELSE ~s[i - 1]))
        /\ motion_state[c] = (IF s = <<>> THEN FALSE ELSE s[Len(s)])
        /\ Cardinality(FiredAt(f)) = Cardinality(MaximalRuns(s))
        /\ FiredAt(f) = {r[1] : r \in MaximalRuns(s)}

\* C1 witness: the samples [F,F,T,T,T,F,T] gave 2 events, at the third and
\* the seventh sample (index 2 and 6 counted from 0).
C1_Witness ==
    /\ samples["front_door"] = <<FALSE, FALSE, TRUE, TRUE, TRUE, FALSE, TRUE>>
    /\ FiredAt(fired["front_door"]) = {3, 7}

\* A command was handled in this step.
Handled(name) == nCmds' = nCmds + 1 /\ cmd'.name = name

\* C2: the connection flag is true initially; its only change is from true
\* to false, made by the disconnect command; after a disconnect has been
\* handled is_running() is false in every state that follows.
C2_RunningOnlyCleared ==
    /\ IsRunning = TRUE
    /\ [][/\ running' # running =>
               running /\ ~running' /\ Handled("ddisconnect")
          /\ Handled("ddisconnect") => ~IsRunning'
          /\ ~IsRunning => ~IsRunning']_vars

\* C2 witness: disconnected, with a later command and loop step handled.
C2_Witness ==
    /\ ~IsRunning
    /\ cmd.name = "start"
    /\ pc = "stopped"

\* C3: once disconnected, the loop starts no new poll, completes at most
\* one sleep, is Stopped as soon as that sleep is over, and does reach
\* Stopped.
C3_StopsWithinOneCycle ==
    /\ [](~running => /\ sinceDisc.polls = 0
                      /\ sinceDisc.wakes <= 1
                      /\ (sinceDisc.wakes = 1 => pc = "stopped"))
    /\ (~running ~> pc = "stopped")

\* C3 witness: the disconnect arrived during event processing and the loop
\* stopped after the one sleep that followed.
C3_Witness ==
    /\ pc = "stopped"
    /\ ~running
    /\ sinceDisc.wakes = 1
    /\ processed.fetch = "ok"
    /\ processed.connected = FALSE

\* A get-photo or get-video command without a camera or with an unknown one.
BadCameraCommand(c) ==
    /\ c.name \in {"dgetphoto", "dgetvideo"}
    /\ (c.args = <<>> \/ c.args[1] \notin Cameras)

\* C4: get-photo / get-video with no camera argument or an unknown camera
\* produce exactly one error reply, issue no snapshot, record or refresh
\* request and attach no photo or video.
C4_BadCameraOnlyErrorReply ==
    BadCameraCommand(cmd) =>
        /\ Len(cmd.replies) = 1
        /\ cmd.replies[1] \in ErrorReplies
        /\ cmd.requests = <<>>

\* C4 witness: a connected bot answered an unknown camera and a missing one.
C4_Witness ==
    /\ cmd.name = "dgetvideo"
    /\ cmd.args = <<"garage">>
    /\ cmd.was_running
    /\ cmd.replies = <<"not_found">>

\* C5: after disconnect, every command other than disconnect only re-states
\* that the bot is disconnected: no request to the event source and no
\* other reply.
C5_OnlyRestatesDisconnection ==
    (cmd.name \in CommandNames \ {"ddisconnect"} /\ ~cmd.was_running) =>
        /\ cmd.replies = <<"disconnected">>
        /\ cmd.requests = <<>>

\* C6: a send_motion_alert call made after disconnect sends no text and no
\* media message, with or without a media reference.
C6_AlertAfterDisconnectNoOp ==
    (alert.caller # "none" /\ ~alert.connected) =>
        /\ alert.stage = "done"
        /\ alert.text = 0
        /\ alert.video = 0
        /\ ~alert.logged
        /\ ~alert.raised

\* C6 witness: a call without media made after the disconnect.
C6_Witness ==
    /\ alert.caller = "api"
    /\ ~alert.connected
    /\ alert.media = NoMedia
    /\ ~running

\* C7: a connected send_motion_alert whose media fails to resolve (the file
\* does not open, or the media send fails) delivers exactly one text and no
\* media message, logs the failure and raises nothing.
C7_MediaFailureKeepsText ==
    (alert.stage = "done" /\ alert.fault \in {"open", "video_send"}) =>
        /\ alert.connected
        /\ alert.media # NoMedia
        /\ alert.text = 1
        /\ alert.video = 0
        /\ alert.logged
        /\ ~alert.raised

\* C7 witness: the file of a connected call could not be opened.
C7_Witness ==
    /\ alert.stage = "done"
    /\ alert.fault = "open"
    /\ alert.connected
    /\ alert.text = 1

\* C8: an event processed while connected whose video download raised still
\* gets exactly one text alert and no media message.
C8_FetchFailureDegradesToText ==
    (processed.fetch = "failed" /\ processed.connected) =>
        /\ processed.text = 1
        /\ processed.video = 0

\* The name of the directory that directly contains a path's last name.
ContainingDir(path) ==
    IF Len(path.dirs) = 0 THEN RootName ELSE path.dirs[Len(path.dirs)]

\* C9: a file-created event whose containing directory is not a known
\* camera is dropped: no callback task is created, no error is raised and
\* the handler's cameras, callbacks and observer are unchanged.
C9_UnknownCameraDropped ==
    [][(nFs' = nFs + 1 /\ ContainingDir(fs'.path) \notin cameras) =>
          /\ tasks' = tasks
          /\ fs'.scheduled = 0
          /\ ~fs'.known
          /\ ~fs'.raised
          /\ UNCHANGED <<cameras, event_callbacks, observing>>]_vars

\* C9 witness: with cameras known and a callback registered, a media file
\* in another directory was dropped.
C9_Witness ==
    /\ fs.passed
    /\ ~fs.known
    /\ fs.path.dirs = <<"garage">>
    /\ cameras = {"front_door", "backyard"}
    /\ event_callbacks # <<>>
    /\ tasks = <<>>

\* C10 as stated: a media file created at any depth under a known camera's
\* subdirectory is a motion event of that camera.
C10_AnyDepthAttributed ==
    (fs.passed /\ fs.path.dirs # <<>> /\ fs.path.dirs[1] \in cameras) =>
        /\ fs.known
        /\ fs.camera_name = fs.path.dirs[1]

\* C10 amended: a media file is attributed to the directory that directly
\* contains it: a file directly in a known camera's subdirectory is a motion
\* event of that camera, a file in a nested directory is one only when the
\* nested directory's own name is a known camera, and then of that camera;
\* every callback task carries the containing directory's name.
C10_ContainingDirAttributed ==
    /\ fs.passed =>
          /\ fs.camera_name = ContainingDir(fs.path)
          /\ fs.known = (ContainingDir(fs.path) \in cameras)
          /\ (Len(fs.path.dirs) = 1 /\ fs.path.dirs[1] \in cameras) =>
                (fs.known /\ fs.camera_name = fs.path.dirs[1])
    /\ \A i \in 1..Len(tasks) :
          /\ tasks[i].camera_name = ContainingDir(tasks[i].video_path)
          /\ tasks[i].camera_name \in cameras

\* C10 witness: a media file directly in a known camera's subdirectory
\* became a callback task of that camera.
C10_Witness ==
    /\ fs.passed
    /\ fs.path.dirs = <<"front_door">>
    /\ fs.known
    /\ fs.scheduled = 1
    /\ tasks # <<>>
    /\ tasks[Len(tasks)].camera_name = "front_door"

\* A created file with the media extension, directly in a known camera's
\* directory.
MediaFileOfKnownCamera(e) ==
    /\ ~e.is_directory
    /\ Len(e.path.name) >= 2
    /\ e.path.name[Len(e.path.name)] = "mp4"
    /\ ContainingDir(e.path) \in cameras

\* C11: a created .mp4 file in a known camera's directory delivers exactly
\* one motion event, with the containing directory's name and the file's
\* path, to each registered callback, and raises nothing; a directory and a
\* file without the extension deliver none.
C11_OneEventPerCallback ==
    [][nFs' = nFs + 1 =>
          IF MediaFileOfKnownCamera(fs')
          THEN /\ ~fs'.raised
               /\ fs'.scheduled = Len(event_callbacks)
               /\ tasks' = tasks \o
                     [i \in 1..Len(event_callbacks) |->
                         [callback |-> event_callbacks[i],
                          camera_name |-> ContainingDir(fs'.path),
                          video_path |-> fs'.path]]
          ELSE tasks' = tasks]_vars


\* The coordinator stopped without ever starting a poll: initialize()
\* returned false (a successful one starts the first poll at once).
InitFailure == pc = "stopped" /\ nPolls = 0

\* C12: when initialization of the event source fails the coordinator is
\* Stopped for good: the listener was never started and no handler was
\* registered (no command is ever handled), no poll was made, no event was
\* processed and no alert was sent, and nothing happens afterwards.
C12_InitFailureStopsSilently ==
    /\ [](InitFailure =>
            /\ ~listening
            /\ nCmds = 0 /\ cmd = NoCommand
            /\ ~pollFailed /\ motion_state = [c \in Cameras |-> FALSE]
            /\ ev = NoEvent /\ processed = NoEvent
            /\ alert = NoAlert)
    /\ [][InitFailure => UNCHANGED vars]_vars

C12_Witness == InitFailure /\ ~listening /\ running


\* C13: two consecutive calls of _discover_cameras that find the storage
\* root in the same state (the scan yields the same entries and ends the
\* same way) leave the same camera set after the second as after the first.
C13_DiscoverIdempotent ==
    \A i \in 1..(Len(scans) - 1) :
        (scans[i + 1].visited = scans[i].visited
            /\ scans[i + 1].failed = scans[i].failed)
        => scans[i + 1].cameras = scans[i].cameras

C13_Witness ==
    /\ Len(scans) >= 2
    /\ scans[1].visited = RootEntries /\ ~scans[1].failed
    /\ scans[2].visited = RootEntries /\ ~scans[2].failed
    /\ scans[1].cameras = {"front_door", "backyard"}
    /\ cameras = scans[1].cameras


\* A step in which send_motion_alert delivers a message.
MessageSent == alert'.text > alert.text \/ alert'.video > alert.video

\* C14 as stated: no alert message is delivered while _running is false,
\* however the command listener interleaves with the main loop.
C14_NoMessageWhileDisconnected == alert.late = 0

\* C14: every alert message is delivered by a send_motion_alert call whose
\* connection check passed when the call was entered; the check is made
\* once, so the call delivers its messages whatever _running is by then.
C14_SendsFollowEntryCheck ==
    [][MessageSent =>
          /\ alert.connected
          /\ alert'.late = alert.late + (IF running THEN 0 ELSE 1)]_vars

\* C14 witness: disconnect was handled during a call with media, and both
\* of its messages were delivered after that.
C14_Witness ==
    /\ ~running
    /\ alert.connected
    /\ alert.text = 1 /\ alert.video = 1
    /\ alert.late = 2


\* A step of the main loop that ends the processing of the current event.
EventDone ==
    /\ pc \in {"download", "alert"}
    /\ nCmds' = nCmds
    /\ pc' # "alert"

\* C15: when the processing of an event ends with an exception (logged),
\* the for-loop goes on with the next event of the batch, in order, or,
\* after the last one, monitor_loop sleeps the cycle delay of a normal
\* iteration; the loop neither stops nor backs off and _running is kept.
C15_EventFailureConfined ==
    [][(EventDone /\ processed'.logged) =>
          /\ processed'.camera = ev.camera
          /\ running' = running
          /\ IF batch = <<>>
             THEN pc' = "sleep" /\ batch' = <<>>
             ELSE /\ pc' = "download"
                  /\ ev' = NewEvent(Head(batch))
                  /\ batch' = Tail(batch)]_vars

\* C15 witness: in the batch of the first poll the download for front_door
\* failed and the event of backyard is being processed.
C15_Witness ==
    /\ nPolls = 1
    /\ processed.camera = "front_door"
    /\ processed.fetch = "failed" /\ processed.logged
    /\ pc = "download"
    /\ ev.camera = "backyard"


\* C16: a poll that raises never stops the loop.  No step taken while a
\* poll is awaited leads to Stopped; the end of the longer sleep leads to
\* the connection check, which starts the next poll when connected and
\* stops only when disconnected; the failed poll changes neither _running
\* nor what is left of the state of the loop.
C16_PollErrorRetried ==
    [][/\ pc = "poll" => pc' \in {"poll", "backoff", "sleep", "download"}
       /\ (pc = "poll" /\ pc' = "backoff") =>
              /\ pollFailed'
              /\ UNCHANGED <<running, listening, batch, ev, processed, alert>>
       /\ (pc = "backoff" /\ pc' # "backoff") =>
              /\ pc' = IF running THEN "poll" ELSE "stopped"
              /\ running' = running]_vars

\* C16 witness: after a poll that raised, a later poll returned an event
\* while connected and its alert text has been delivered.
C16_Witness ==
    /\ pollFailed
    /\ running
    /\ pc = "alert"
    /\ alert.connected
    /\ alert.stage = "video"
    /\ alert.text = 1


\* C17 as stated: when from some point on every poll raises (the loop only
\* polls and backs off), the loop eventually reaches Stopped, disconnect or
\* not.
C17_PermanentFailureStops ==
    (<>[](pc \in {"poll", "backoff"})) => <>(pc = "stopped")

\* C17: the running loop is left only at its connection check, at the end
\* of a sleep, and only when _running is false; however many polls raise,
\* a connected loop polls again.
C17_StopsOnlyOnDisconnect ==
    [][(pc \notin {"init", "stopped"} /\ pc' = "stopped") =>
          /\ ~running
          /\ pc \in {"sleep", "backoff"}]_vars

\* C17 witness: no command was ever handled, a poll has raised, and the
\* connected loop is polling again.
C17_Witness ==
    /\ nCmds = 0
    /\ running
    /\ pollFailed
    /\ nPolls >= 2
    /\ pc = "poll"


\* C18: when the scan of the storage root raises during initialize(), the
\* failure is logged, initialize() does not fail because of it, and the
\* camera set is left empty, wherever in the scan the failure occurs.
C18_FailedScanLeavesNoCameras ==
    (Len(scans) >= 1 /\ scans[1].failed) =>
        /\ scans[1].logged
        /\ observing # "new"
        /\ cameras = {}


\* C19: a send_motion_alert call made while connected delivers at most one
\* text and at most one media message; the media send is started and the
\* media message delivered only after the text message of the same call was
\* delivered; a failed text send ends the call with no message at all; a
\* call without a media reference never sends media and, when its send
\* succeeds, delivers exactly the text message.
C19_TextThenOptionalMedia ==
    alert.connected =>
        /\ alert.text <= 1
        /\ alert.video <= 1
        /\ (alert.stage = "video" \/ alert.video = 1) => alert.text = 1
        /\ alert.fault = "text_send" =>
              alert.stage = "done" /\ alert.text = 0 /\ alert.video = 0
        /\ alert.media = NoMedia =>
              /\ alert.stage # "video"
              /\ alert.video = 0
              /\ (alert.stage = "done" /\ alert.fault = "none") =>
                    alert.text = 1

\* C19 witness: the text send of a connected call with media failed.
C19_Witness ==
    /\ alert.caller = "api"
    /\ alert.connected
    /\ alert.media # NoMedia
    /\ alert.fault = "text_send"
    /\ alert.stage = "done"
    /\ alert.text = 0

============================================================================
